---- MODULE Spec2Model ----
(***************************************************************************)
(* Account lifecycle of app/services/user_service.py (UserService):        *)
(* create, login_user with lockout, reset_password,                        *)
(* verify_email_with_token, unlock_user_account and delete over a store of *)
(* User records.                                                           *)
(*                                                                         *)
(* Spec      every handler is one atomic step (calls made one at a time).  *)
(* ConcSpec  create is split at its awaits (email lookup, nickname lookup, *)
(*           count, commit) and run by two request tasks, with delete.     *)
(***************************************************************************)
EXTENDS Integers, Sequences, FiniteSets, TLC

VARIABLES
    users,      \* the users table: id -> User row
    nextId,     \* the next primary key handed out at insert
    now,        \* datetime.now(timezone.utc), in hours
    lastCall,   \* history: the last call that returned or raised
    granted,    \* history: ids of the accounts create inserted with role ADMIN
    pc,         \* per task: where its create call stands
    loc,        \* per task: the locals of its create call
    overlap,    \* history: some create began while another was in flight
    used,       \* history: the <<id, token>> pairs a verification succeeded with
    login,      \* per task: the locals of its login_user call
    wrongs,     \* history: per id, wrong-password logins completed in a row
    admin,      \* the locals of the reset_password or unlock call in flight
    raced       \* history: such a call was in flight together with a login

vars ==
    <<users, nextId, now, lastCall, granted, pc, loc, overlap, used, login,
      wrongs, admin, raced>>

----------------------------------------------------------------------------
(* Bounds of the model *)

MaxAccounts == 2
MaxNow == 25
TickHours == 25
max_login_attempts == 2
MaxWindowNow == 48

(* Program constants *)

LockHours == 24

Emails == {"a@x", "b@x"}
Passwords == {"pw1", "pw2"}
Nicknames == {"n1", "n2"}
Tokens == {"t1"}
Tasks == {1, 2}

None == "None"
NoTime == 0 - 1
SuppliedTokens == Tokens \cup {"t0", None}

----------------------------------------------------------------------------
(* Collaborators that live outside user_service.py *)

\* app.utils.security.hash_password: a one-way value, never the plaintext
hash_password(password) == <<"hash", password>>

\* app.utils.security.verify_password
verify_password(password, hashed) == hashed = hash_password(password)

\* app.models.user_model.User: the column defaults of a new row
User(email, hashed) ==
    [id |-> 0, email |-> email, nickname |-> None, hashed_password |-> hashed,
     role |-> "ANONYMOUS", email_verified |-> FALSE, verification_token |-> None,
     is_locked |-> FALSE, failed_login_attempts |-> 0,
     last_login_at |-> NoTime, created_at |-> NoTime,
     is_professional |-> FALSE, professional_status_updated_at |-> NoTime,
     bio |-> None, linkedin_profile_url |-> None]

\* what a lookup that finds no row yields (Python None)
NoUser == [User("", <<>>) EXCEPT !.role = None]

\* no reset_password or unlock_user_account call in flight
NoAdmin ==
    [op |-> None, id |-> 0, password |-> None, user |-> NoUser, row |-> NoUser,
     result |-> None]

\* a task with no login_user call in flight
NoLogin == [password |-> None, user |-> NoUser, row |-> NoUser, result |-> None]

\* the unique constraints of the users table on email and nickname
UniqueViolation(store, row) ==
    \E i \in DOMAIN store :
        store[i].email = row.email \/ store[i].nickname = row.nickname

----------------------------------------------------------------------------
(* Query helpers *)

_fetch_user(store, column, value) ==
    IF \E i \in DOMAIN store : store[i][column] = value
    THEN store[CHOOSE i \in DOMAIN store : store[i][column] = value]
    ELSE NoUser

get_by_id(store, user_id) == _fetch_user(store, "id", user_id)

get_by_nickname(store, nickname) == _fetch_user(store, "nickname", nickname)

get_by_email(store, email) == _fetch_user(store, "email", email)

count(store) == Cardinality(DOMAIN store)

\* names bound at module level by the import statements
ModuleNames ==
    {"Exception", "bool", "classmethod", "int", "str", "datetime", "timezone",
     "secrets", "Optional", "Dict", "List", "ValidationError", "func", "null",
     "update", "select", "SQLAlchemyError", "AsyncSession", "get_email_service",
     "get_settings", "User", "UserCreate", "UserUpdate", "generate_nickname",
     "generate_verification_token", "hash_password", "verify_password", "UUID",
     "EmailService", "UserRole", "logging", "settings", "logger", "UserService"}

NameDefined(name) == name \in ModuleNames

----------------------------------------------------------------------------
(* UserService.login_user *)

\* variant of credential_check: a success that leaves the counter as it was
credential_check_keeps_counter(user, password, t) ==
    IF verify_password(password, user.hashed_password)
    THEN [result |-> "user", commit |-> TRUE,
          row |-> [user EXCEPT !.last_login_at = t]]
    ELSE LET attempts == user.failed_login_attempts + 1
         IN  [result |-> None, commit |-> TRUE,
              row |-> [user EXCEPT !.failed_login_attempts = attempts,
                                   !.last_login_at = t,
                                   !.is_locked =
                                       IF attempts >= max_login_attempts
                                       THEN TRUE ELSE @]]

\* variant of credential_check: the lock is set one attempt late
credential_check_locks_late(user, password, t) ==
    IF verify_password(password, user.hashed_password)
    THEN [result |-> "user", commit |-> TRUE,
          row |-> [user EXCEPT !.failed_login_attempts = 0, !.last_login_at = t]]
    ELSE LET attempts == user.failed_login_attempts + 1
         IN  [result |-> None, commit |-> TRUE,
              row |-> [user EXCEPT !.failed_login_attempts = attempts,
                                   !.last_login_at = t,
                                   !.is_locked =
                                       IF attempts > max_login_attempts
                                       THEN TRUE ELSE @]]

\* the credential check that ends login_user
credential_check(user, password, t) ==
    IF verify_password(password, user.hashed_password)
    THEN [result |-> "user", commit |-> TRUE,
          row |-> [user EXCEPT !.failed_login_attempts = 0, !.last_login_at = t]]
    ELSE LET attempts == user.failed_login_attempts + 1
         IN  [result |-> None, commit |-> TRUE,
              row |-> [user EXCEPT !.failed_login_attempts = attempts,
                                   !.last_login_at = t,
                                   !.is_locked =
                                       IF attempts >= max_login_attempts
                                       THEN TRUE ELSE @]]

\* user.last_login_at or user.created_at
last_attempt(user) ==
    IF user.last_login_at # NoTime THEN user.last_login_at ELSE user.created_at

\* the branch taken when user.is_locked holds; timedelta(hours=24) is looked
\* up when the comparison is evaluated, before any field is assigned
locked_branch(user, password, t) ==
    IF ~NameDefined("timedelta")
    THEN [result |-> "NameError", commit |-> FALSE, row |-> user]
    ELSE IF t - last_attempt(user) > LockHours
    THEN credential_check(
             [user EXCEPT !.is_locked = FALSE, !.failed_login_attempts = 0],
             password, t)
    ELSE [result |-> None, commit |-> TRUE,
          row |-> [user EXCEPT !.last_login_at = t]]

login_user(store, email, password, t) ==
    LET user == get_by_email(store, email)
    IN  IF user = NoUser
        THEN [result |-> None, commit |-> FALSE, row |-> user]
        ELSE IF user.email_verified = FALSE
        THEN [result |-> None, commit |-> FALSE, row |-> user]
        ELSE IF user.is_locked
        THEN locked_branch(user, password, t)
        ELSE credential_check(user, password, t)

----------------------------------------------------------------------------
(* UserService.reset_password, verify_email_with_token, unlock_user_account *)

\* variant of reset_password: the counter is reset and the lock is kept
reset_password_keeps_lock(store, user_id, new_password) ==
    LET hashed_password == hash_password(new_password)
        user == get_by_id(store, user_id)
    IN  IF user # NoUser
        THEN [result |-> "True", commit |-> TRUE,
              row |-> [user EXCEPT !.hashed_password = hashed_password,
                                   !.failed_login_attempts = 0]]
        ELSE [result |-> "False", commit |-> FALSE, row |-> user]

\* variant of reset_password: the lock is cleared and the counter is kept
reset_password_keeps_counter(store, user_id, new_password) ==
    LET hashed_password == hash_password(new_password)
        user == get_by_id(store, user_id)
    IN  IF user # NoUser
        THEN [result |-> "True", commit |-> TRUE,
              row |-> [user EXCEPT !.hashed_password = hashed_password,
                                   !.is_locked = FALSE]]
        ELSE [result |-> "False", commit |-> FALSE, row |-> user]

reset_password(store, user_id, new_password) ==
    LET hashed_password == hash_password(new_password)
        user == get_by_id(store, user_id)
    IN  IF user # NoUser
        THEN [result |-> "True", commit |-> TRUE,
              row |-> [user EXCEPT !.hashed_password = hashed_password,
                                   !.failed_login_attempts = 0,
                                   !.is_locked = FALSE]]
        ELSE [result |-> "False", commit |-> FALSE, row |-> user]

\* variant of verify_email_with_token: the token is not cleared
verify_email_keeps_token(store, user_id, token) ==
    LET user == get_by_id(store, user_id)
    IN  IF user # NoUser /\ user.verification_token = token
        THEN [result |-> "True", commit |-> TRUE,
              row |-> [user EXCEPT !.email_verified = TRUE,
                                   !.role = "AUTHENTICATED"]]
        ELSE [result |-> "False", commit |-> FALSE, row |-> user]

\* variant of verify_email_with_token: the token is not compared
verify_email_any_token(store, user_id, token) ==
    LET user == get_by_id(store, user_id)
    IN  IF user # NoUser
        THEN [result |-> "True", commit |-> TRUE,
              row |-> [user EXCEPT !.email_verified = TRUE,
                                   !.verification_token = None,
                                   !.role = "AUTHENTICATED"]]
        ELSE [result |-> "False", commit |-> FALSE, row |-> user]

verify_email_with_token(store, user_id, token) ==
    LET user == get_by_id(store, user_id)
    IN  IF user # NoUser /\ user.verification_token = token
        THEN [result |-> "True", commit |-> TRUE,
              row |-> [user EXCEPT !.email_verified = TRUE,
                                   !.verification_token = None,
                                   !.role = "AUTHENTICATED"]]
        ELSE [result |-> "False", commit |-> FALSE, row |-> user]

\* variant of unlock_user_account: is_locked is not tested
unlock_user_account_always(store, user_id) ==
    LET user == get_by_id(store, user_id)
    IN  IF user # NoUser
        THEN [result |-> "True", commit |-> TRUE,
              row |-> [user EXCEPT !.is_locked = FALSE,
                                   !.failed_login_attempts = 0]]
        ELSE [result |-> "False", commit |-> FALSE, row |-> user]

unlock_user_account(store, user_id) ==
    LET user == get_by_id(store, user_id)
    IN  IF user # NoUser /\ user.is_locked
        THEN [result |-> "True", commit |-> TRUE,
              row |-> [user EXCEPT !.is_locked = FALSE,
                                   !.failed_login_attempts = 0]]
        ELSE [result |-> "False", commit |-> FALSE, row |-> user]

\* session.add(user); await session.commit() of a loaded row
commit_row(store, out) ==
    IF out.commit THEN [store EXCEPT ![out.row.id] = out.row] ELSE store

----------------------------------------------------------------------------
(* UserService.create *)

\* variant of existing_user: the lookup result is not tested
existing_user_never(store, email) == FALSE

\* the existence check on the email
existing_user(store, email) == get_by_email(store, email) # NoUser

\* generate_nickname() until get_by_nickname finds no row
nickname_free(store, nickname) == get_by_nickname(store, nickname) = NoUser

\* variant of role_for: the comparison is off by one
role_for_first_two(user_count) ==
    IF user_count <= 1 THEN "ADMIN" ELSE "ANONYMOUS"

\* the role given from the count of stored users
role_for(user_count) == IF user_count = 0 THEN "ADMIN" ELSE "ANONYMOUS"

\* variant of with_role: the ADMIN is not marked verified
with_role_admin_unverified(new_user, user_count, token) ==
    LET role == role_for(user_count)
    IN  IF role = "ADMIN"
        THEN [new_user EXCEPT !.role = role]
        ELSE [new_user EXCEPT !.role = role, !.verification_token = token]

\* role, email_verified and verification_token of the new user
with_role(new_user, user_count, token) ==
    LET role == role_for(user_count)
    IN  IF role = "ADMIN"
        THEN [new_user EXCEPT !.role = role, !.email_verified = TRUE]
        ELSE [new_user EXCEPT !.role = role, !.verification_token = token]

\* send_verification_email is awaited only for a user that is not ADMIN
sends_email(new_user) == IF new_user.role = "ADMIN" THEN 0 ELSE 1

\* session.add(new_user); await session.commit()
insert(store, new_user, id, t) ==
    IF UniqueViolation(store, new_user)
    THEN [result |-> "IntegrityError", store |-> store]
    ELSE [result |-> "user",
          store |-> [i \in DOMAIN store \cup {id} |->
                        IF i = id
                        THEN [new_user EXCEPT !.id = id, !.created_at = t]
                        ELSE store[i]]]

----------------------------------------------------------------------------
(* UserService.update and UserService.update_professional_status *)

Bios == {"b1"}
Urls == {"https://u", "invalid-url"}

\* the keys a caller may put in update_data
UpdateFields == {"bio", "linkedin_profile_url", "password"}

\* the values a caller may give to a key
FieldValues(field) ==
    IF field = "bio" THEN Bios
    ELSE IF field = "linkedin_profile_url" THEN Urls
    ELSE Passwords

\* the update_data maps: some of the keys, each with a value
UpdateData ==
    {d \in UNION {[D -> Bios \cup Urls \cup Passwords] :
                     D \in SUBSET UpdateFields \ {{}}} :
        \A field \in DOMAIN d : d[field] \in FieldValues(field)}

\* UserUpdate(**update_data): a URL field must be a URL
UserUpdate(update_data) ==
    \A field \in DOMAIN update_data :
        field = "linkedin_profile_url" => update_data[field] = "https://u"

\* model_dump(exclude_unset=True), with password replaced by hashed_password
validated_data(update_data) ==
    [column \in (DOMAIN update_data \ {"password"})
                   \cup (IF "password" \in DOMAIN update_data
                         THEN {"hashed_password"} ELSE {}) |->
        IF column = "hashed_password"
        THEN hash_password(update_data["password"])
        ELSE update_data[column]]

\* update(User).where(User.id == user_id).values(**validated_data)
values(row, data) ==
    [column \in DOMAIN row |->
        IF column \in DOMAIN data THEN data[column] ELSE row[column]]

\* variant of update: the fields are written before they are validated
update_then_validate(store, user_id, update_data) ==
    LET found == get_by_id(store, user_id)
    IN  IF found = NoUser
        THEN [result |-> None, commit |-> FALSE, row |-> found]
        ELSE [result |-> IF UserUpdate(update_data) THEN "user" ELSE None,
              commit |-> TRUE,
              row |-> values(found, validated_data(update_data))]

update(store, user_id, update_data) ==
    LET found == get_by_id(store, user_id)
    IN  IF found = NoUser
        THEN [result |-> None, commit |-> FALSE, row |-> found]
        ELSE IF ~UserUpdate(update_data)
        THEN [result |-> None, commit |-> FALSE, row |-> found]
        ELSE [result |-> "user", commit |-> TRUE,
              row |-> values(found, validated_data(update_data))]

\* variant of update_professional_status: the stamp is set on a change only
update_professional_status_on_change(store, user_id, is_professional, t) ==
    LET user == get_by_id(store, user_id)
    IN  IF user = NoUser
        THEN [result |-> None, commit |-> FALSE, row |-> user]
        ELSE [result |-> "user", commit |-> TRUE,
              row |-> [user EXCEPT
                          !.is_professional = is_professional,
                          !.professional_status_updated_at =
                              IF user.is_professional = is_professional
                              THEN @ ELSE t]]

update_professional_status(store, user_id, is_professional, t) ==
    LET user == get_by_id(store, user_id)
    IN  IF user = NoUser
        THEN [result |-> None, commit |-> FALSE, row |-> user]
        ELSE [result |-> "user", commit |-> TRUE,
              row |-> [user EXCEPT !.is_professional = is_professional,
                                   !.professional_status_updated_at = t]]

----------------------------------------------------------------------------
(* History of the last call: its inputs, what it returned or raised, and  *)
(* the counter and lock of the row it loaded                               *)

Call(op, email, id, password, token, result, before, sends) ==
    [op |-> op, email |-> email, id |-> id, password |-> password,
     token |-> token, result |-> result, sends |-> sends,
     attempts |-> before.failed_login_attempts, locked |-> before.is_locked]

Init ==
    /\ users = << >>
    /\ nextId = 1
    /\ now = 0
    /\ lastCall = Call("init", "", 0, "", None, None, NoUser, 0)
    /\ granted = {}
    /\ pc = [p \in Tasks |-> "idle"]
    /\ loc = [p \in Tasks |-> NoUser]
    /\ overlap = FALSE
    /\ used = {}
    /\ login = [p \in Tasks |-> NoLogin]
    /\ wrongs = [i \in 1..MaxAccounts |-> 0]
    /\ admin = NoAdmin
    /\ raced = FALSE

----------------------------------------------------------------------------
(* Spec: every handler runs to its end in one step *)

Create ==
    \E email \in Emails, password \in Passwords, valid \in BOOLEAN :
        /\ nextId <= MaxAccounts
        /\ IF ~valid \/ existing_user(users, email)
           THEN /\ lastCall' = Call("create", email, 0, "", None, None,
                                    NoUser, 0)
                /\ UNCHANGED <<users, nextId, granted>>
           ELSE \E nickname \in Nicknames, token \in Tokens, sendOk \in BOOLEAN :
                LET user_count == count(users)
                    new_user == with_role(
                        [User(email, hash_password(password))
                            EXCEPT !.nickname = nickname],
                        user_count, token)
                    sends == sends_email(new_user)
                    done == insert(users, new_user, nextId, now)
                IN  /\ nickname_free(users, nickname)
                    /\ sends = 0 => sendOk
                    /\ IF ~sendOk
                       THEN /\ lastCall' = Call("create", email, 0, "", None,
                                                "Exception", NoUser, sends)
                            /\ UNCHANGED <<users, nextId, granted>>
                       ELSE /\ users' = done.store
                            /\ nextId' = IF done.result = "user"
                                         THEN nextId + 1 ELSE nextId
                            /\ granted' = IF done.result = "user"
                                             /\ new_user.role = "ADMIN"
                                          THEN granted \cup {nextId} ELSE granted
                            /\ lastCall' = Call("create", email,
                                                IF done.result = "user"
                                                THEN nextId ELSE 0,
                                                "", new_user.verification_token,
                                                done.result, NoUser, sends)
        /\ UNCHANGED <<now, pc, loc, overlap, used, login,
                     wrongs, admin, raced>>

LoginUser ==
    \E email \in Emails, password \in Passwords :
        LET before == get_by_email(users, email)
            out == login_user(users, email, password, now)
        IN  /\ users' = commit_row(users, out)
            /\ lastCall' = Call("login_user", "", before.id, password, None,
                                out.result, before, 0)
            /\ UNCHANGED <<nextId, now, granted, pc, loc, overlap, used, login,
                     wrongs, admin, raced>>

ResetPassword ==
    \E user_id \in 1..MaxAccounts, new_password \in Passwords :
        LET before == get_by_id(users, user_id)
            out == reset_password(users, user_id, new_password)
        IN  /\ users' = commit_row(users, out)
            /\ lastCall' = Call("reset_password", "", user_id, new_password, None,
                                out.result, before, 0)
            /\ UNCHANGED <<nextId, now, granted, pc, loc, overlap, used, login,
                     wrongs, admin, raced>>

VerifyEmail ==
    \E user_id \in 1..MaxAccounts, token \in SuppliedTokens :
        LET before == get_by_id(users, user_id)
            out == verify_email_with_token(users, user_id, token)
        IN  /\ users' = commit_row(users, out)
            /\ lastCall' = Call("verify_email_with_token", "", user_id, "", token,
                                out.result, before, 0)
            /\ used' = IF out.result = "True"
                       THEN used \cup {<<user_id, token>>} ELSE used
            /\ UNCHANGED <<nextId, now, granted, pc, loc, overlap, login,
                           wrongs, admin, raced>>

UnlockUserAccount ==
    \E user_id \in 1..MaxAccounts :
        LET before == get_by_id(users, user_id)
            out == unlock_user_account(users, user_id)
        IN  /\ users' = commit_row(users, out)
            /\ lastCall' = Call("unlock_user_account", "", user_id, "", None,
                                out.result, before, 0)
            /\ UNCHANGED <<nextId, now, granted, pc, loc, overlap, used, login,
                     wrongs, admin, raced>>

\* UserService.delete
Delete ==
    \E user_id \in 1..MaxAccounts :
        LET before == get_by_id(users, user_id)
        IN  /\ users' = IF before # NoUser
                        THEN [i \in DOMAIN users \ {user_id} |-> users[i]]
                        ELSE users
            /\ lastCall' = Call("delete", "", user_id, "", None,
                                IF before # NoUser THEN "True" ELSE "False",
                                before, 0)
            /\ UNCHANGED <<nextId, now, granted, pc, loc, overlap, used, login,
                     wrongs, admin, raced>>

\* time passes between calls
Tick ==
    /\ now + TickHours <= MaxNow
    /\ now' = now + TickHours
    /\ lastCall' = Call("tick", "", 0, "", None, None, NoUser, 0)
    /\ UNCHANGED <<users, nextId, granted, pc, loc, overlap, used, login,
                     wrongs, admin, raced>>

Next ==
    \/ Create
    \/ LoginUser
    \/ ResetPassword
    \/ VerifyEmail
    \/ UnlockUserAccount
    \/ Tick

Spec == Init /\ [][Next]_vars

----------------------------------------------------------------------------
(* ProfileSpec: create and update, ProfessionalSpec: create and             *)
(* update_professional_status, one call at a time; the history of these    *)
(* calls also holds the update_data or the is_professional of the call     *)

Update ==
    \E user_id \in 1..MaxAccounts, update_data \in UpdateData :
        LET before == get_by_id(users, user_id)
            out == update(users, user_id, update_data)
        IN  /\ users' = commit_row(users, out)
            /\ lastCall' = Call("update", "", user_id, "", None, out.result,
                                before, 0) @@ [data |-> update_data]
            /\ UNCHANGED <<nextId, now, granted, pc, loc, overlap, used, login,
                           wrongs, admin, raced>>

UpdateProfessionalStatus ==
    \E user_id \in 1..MaxAccounts, is_professional \in BOOLEAN :
        LET before == get_by_id(users, user_id)
            out == update_professional_status(users, user_id, is_professional,
                                              now)
        IN  /\ users' = commit_row(users, out)
            /\ lastCall' = Call("update_professional_status", "", user_id, "",
                                None, out.result, before, 0)
                                @@ [data |-> is_professional,
                                    was |-> before.is_professional,
                                    stamp |->
                                        before.professional_status_updated_at]
            /\ UNCHANGED <<nextId, now, granted, pc, loc, overlap, used, login,
                           wrongs, admin, raced>>

ProfileNext ==
    \/ Create
    \/ Update
    \/ Tick

ProfileSpec == Init /\ [][ProfileNext]_vars

ProfessionalNext ==
    \/ Create
    \/ UpdateProfessionalStatus
    \/ Tick

ProfessionalSpec == Init /\ [][ProfessionalNext]_vars

----------------------------------------------------------------------------
(* ConcSpec: two request tasks run create, which yields at each await      *)

InFlight == {q \in Tasks : pc[q] # "idle"}

\* validation, get_by_email and the construction of new_user
CreateStart(p) ==
    \E email \in Emails, password \in Passwords, valid \in BOOLEAN :
        /\ pc[p] = "idle"
        /\ nextId + Cardinality(InFlight) <= MaxAccounts
        /\ overlap' = (overlap \/ InFlight # {})
        /\ IF ~valid \/ existing_user(users, email)
           THEN /\ lastCall' = Call("create", email, 0, "", None, None, NoUser, 0)
                /\ UNCHANGED <<pc, loc>>
           ELSE /\ pc' = [pc EXCEPT ![p] = "nickname"]
                /\ loc' = [loc EXCEPT ![p] = User(email, hash_password(password))]
                /\ UNCHANGED lastCall
        /\ UNCHANGED <<users, nextId, now, granted, used, login,
                     wrongs, admin, raced>>

\* the nickname loop: it ends with a nickname no stored row has
CreateNickname(p) ==
    \E nickname \in Nicknames :
        /\ pc[p] = "nickname"
        /\ nickname_free(users, nickname)
        /\ pc' = [pc EXCEPT ![p] = "count"]
        /\ loc' = [loc EXCEPT ![p].nickname = nickname]
        /\ UNCHANGED <<users, nextId, now, lastCall, granted, overlap, used, login,
                     wrongs, admin, raced>>

\* count, the role, and the verification email
CreateCount(p) ==
    \E token \in Tokens, sendOk \in BOOLEAN :
        LET new_user == with_role(loc[p], count(users), token)
            sends == sends_email(new_user)
        IN  /\ pc[p] = "count"
            /\ sends = 0 => sendOk
            /\ IF ~sendOk
               THEN /\ pc' = [pc EXCEPT ![p] = "idle"]
                    /\ loc' = [loc EXCEPT ![p] = NoUser]
                    /\ lastCall' = Call("create", new_user.email, 0, "", None,
                                        "Exception", NoUser, sends)
               ELSE /\ pc' = [pc EXCEPT ![p] = "commit"]
                    /\ loc' = [loc EXCEPT ![p] = new_user]
                    /\ UNCHANGED lastCall
            /\ UNCHANGED <<users, nextId, now, granted, overlap, used, login,
                     wrongs, admin, raced>>

\* session.add(new_user); await session.commit()
CreateCommit(p) ==
    LET new_user == loc[p]
        done == insert(users, new_user, nextId, now)
    IN  /\ pc[p] = "commit"
        /\ users' = done.store
        /\ nextId' = IF done.result = "user" THEN nextId + 1 ELSE nextId
        /\ granted' = IF done.result = "user" /\ new_user.role = "ADMIN"
                      THEN granted \cup {nextId} ELSE granted
        /\ lastCall' = Call("create", new_user.email,
                            IF done.result = "user" THEN nextId ELSE 0,
                            "", new_user.verification_token, done.result, NoUser,
                            sends_email(new_user))
        /\ pc' = [pc EXCEPT ![p] = "idle"]
        /\ loc' = [loc EXCEPT ![p] = NoUser]
        /\ UNCHANGED <<now, overlap, used, login,
                     wrongs, admin, raced>>

ConcNext ==
    \/ \E p \in Tasks : CreateStart(p)
    \/ \E p \in Tasks : CreateNickname(p)
    \/ \E p \in Tasks : CreateCount(p)
    \/ \E p \in Tasks : CreateCommit(p)
    \/ Delete
    \/ Tick

ConcSpec == Init /\ [][ConcNext]_vars

----------------------------------------------------------------------------
(* LoginSpec: two request tasks run login_user, which yields at its        *)
(* awaits: get_by_email (the read) and session.commit() (the write)        *)

\* variant of flush: the counter is written as an increment of the stored one
flush_increment(stored, loaded, row) ==
    [column \in DOMAIN stored |->
        IF row[column] = loaded[column] THEN stored[column]
        ELSE IF column = "failed_login_attempts" /\ row[column] > loaded[column]
        THEN stored[column] + (row[column] - loaded[column])
        ELSE row[column]]

\* the UPDATE that session.commit() sends for a loaded row: it sets the
\* columns whose attribute was given a new value, to that value
flush(stored, loaded, row) ==
    [column \in DOMAIN stored |->
        IF row[column] = loaded[column] THEN stored[column] ELSE row[column]]

\* get_by_email and everything up to the commit; a call that commits
\* nothing ends here
LoginStart(p) ==
    \E email \in Emails, password \in Passwords :
        LET user == get_by_email(users, email)
            out == login_user(users, email, password, now)
        IN  /\ pc[p] = "idle"
            /\ user.failed_login_attempts <= max_login_attempts
            /\ raced' = (raced \/ (out.commit /\ admin # NoAdmin))
            /\ IF out.commit
               THEN /\ pc' = [pc EXCEPT ![p] = "login_commit"]
                    /\ login' = [login EXCEPT ![p] =
                                    [password |-> password, user |-> user,
                                     row |-> out.row, result |-> out.result]]
                    /\ UNCHANGED lastCall
               ELSE /\ lastCall' = Call("login_user", "", user.id, password,
                                        None, out.result, user, 0)
                    /\ UNCHANGED <<pc, login>>
            /\ UNCHANGED <<users, nextId, now, granted, loc, overlap, used,
                           wrongs, admin>>

\* session.add(user); await session.commit(); return
LoginCommit(p) ==
    LET call == login[p]
        i == call.user.id
    IN  /\ pc[p] = "login_commit"
        /\ users' = [users EXCEPT ![i] = flush(@, call.user, call.row)]
        /\ wrongs' = [wrongs EXCEPT ![i] =
                          IF call.result = "user" THEN 0 ELSE @ + 1]
        /\ lastCall' = Call("login_user", "", i, call.password, None,
                            call.result, call.user, 0)
        /\ pc' = [pc EXCEPT ![p] = "idle"]
        /\ login' = [login EXCEPT ![p] = NoLogin]
        /\ UNCHANGED <<nextId, now, granted, loc, overlap, used, admin, raced>>

LoginNext ==
    \/ Create
    \/ \E p \in Tasks : LoginStart(p)
    \/ \E p \in Tasks : LoginCommit(p)

LoginSpec == Init /\ [][LoginNext]_vars

----------------------------------------------------------------------------
(* RaceSpec: the login_user tasks of LoginSpec together with one           *)
(* reset_password or unlock_user_account call, which yields at its awaits: *)
(* get_by_id (the read) and session.commit() (the write); the calls are    *)
(* made on a table that holds the first account                            *)

\* get_by_id and the assignments; a call that commits nothing ends here
AdminStart ==
    \E op \in {"reset_password", "unlock_user_account"},
       user_id \in 1..MaxAccounts, new_password \in Passwords :
        LET user == get_by_id(users, user_id)
            out == IF op = "reset_password"
                   THEN reset_password(users, user_id, new_password)
                   ELSE unlock_user_account(users, user_id)
        IN  /\ admin = NoAdmin
            /\ raced' = (raced \/ (out.commit /\ \E p \in Tasks :
                                                    pc[p] = "login_commit"))
            /\ IF out.commit
               THEN /\ admin' = [op |-> op, id |-> user_id,
                                 password |-> new_password, user |-> user,
                                 row |-> out.row, result |-> out.result]
                    /\ UNCHANGED lastCall
               ELSE /\ lastCall' = Call(op, "", user_id, new_password, None,
                                        out.result, user, 0)
                    /\ UNCHANGED admin
            /\ UNCHANGED <<users, nextId, now, granted, pc, loc, overlap, used,
                           login, wrongs>>

\* session.add(user); await session.commit(); return True
AdminCommit ==
    /\ admin # NoAdmin
    /\ users' = [users EXCEPT ![admin.id] = flush(@, admin.user, admin.row)]
    /\ wrongs' = [wrongs EXCEPT ![admin.id] = 0]
    /\ lastCall' = Call(admin.op, "", admin.id, admin.password, None,
                        admin.result, admin.user, 0)
    /\ admin' = NoAdmin
    /\ UNCHANGED <<nextId, now, granted, pc, loc, overlap, used, login, raced>>

\* the table after one create: the first account, ADMIN and verified
RaceInit ==
    \E email \in Emails, password \in Passwords, nickname \in Nicknames :
        LET new_user == with_role(
                [User(email, hash_password(password))
                    EXCEPT !.nickname = nickname], count(<< >>), None)
        IN  /\ users = insert(<< >>, new_user, 1, 0).store
            /\ nextId = 2
            /\ now = 0
            /\ lastCall = Call("create", email, 1, "", None, "user", NoUser, 0)
            /\ granted = {1}
            /\ pc = [p \in Tasks |-> "idle"]
            /\ loc = [p \in Tasks |-> NoUser]
            /\ overlap = FALSE
            /\ used = {}
            /\ login = [p \in Tasks |-> NoLogin]
            /\ wrongs = [i \in 1..MaxAccounts |-> 0]
            /\ admin = NoAdmin
            /\ raced = FALSE

RaceNext ==
    \/ \E p \in Tasks : LoginStart(p)
    \/ \E p \in Tasks : LoginCommit(p)
    \/ AdminStart
    \/ AdminCommit

RaceSpec == RaceInit /\ [][RaceNext]_vars

----------------------------------------------------------------------------
(* WindowSpec: calls made one at a time, with attempts that come exactly   *)
(* one lock window apart                                                   *)

\* a whole window of 24 hours passes between calls
WindowTick ==
    /\ now + LockHours <= MaxWindowNow
    /\ now' = now + LockHours
    /\ lastCall' = Call("tick", "", 0, "", None, None, NoUser, 0)
    /\ UNCHANGED <<users, nextId, granted, pc, loc, overlap, used, login,
                   wrongs, admin, raced>>

WindowNext ==
    \/ Create
    \/ LoginUser
    \/ ResetPassword
    \/ UnlockUserAccount
    \/ WindowTick

WindowSpec == Init /\ [][WindowNext]_vars

----------------------------------------------------------------------------
(* Properties.  In a step of Spec, lastCall' is the call the step makes,   *)
(* users the table before it and users' the table after it.                *)

\* the step is a login_user call that loaded row i
LoginOn(i) == lastCall'.op = "login_user" /\ lastCall'.id = i

\* the password of the call is the plaintext behind the row's hash
PasswordOk(i) == lastCall'.password = users[i].hashed_password[2]

\* hours between the row's last attempt and the call
Elapsed(i) == now - last_attempt(users[i])

C1_Counting ==
    \A i \in DOMAIN users :
        (/\ LoginOn(i)
         /\ users[i].email_verified
         /\ ~users[i].is_locked
         /\ ~PasswordOk(i))
        => /\ users'[i].failed_login_attempts
                = users[i].failed_login_attempts + 1
           /\ users'[i].is_locked
                = (users[i].failed_login_attempts + 1 >= max_login_attempts)

C1_LockedAttempt ==
    \A i \in DOMAIN users :
        (/\ LoginOn(i)
         /\ users[i].email_verified
         /\ users[i].is_locked
         /\ Elapsed(i) <= LockHours)
        => /\ lastCall'.result = None
           /\ users'[i].is_locked = users[i].is_locked
           /\ users'[i].failed_login_attempts = users[i].failed_login_attempts

\* C1: on a verified, unlocked account each wrong-password login_user adds one
\* to failed_login_attempts and is_locked becomes true exactly when the count
\* reaches max_login_attempts (so after the Nth wrong password from 0 and not
\* before); a login_user call on the locked account within 24 hours returns
\* failure for any password and leaves is_locked and the counter as they were.
C1_LockoutThenAccountLocked == [][C1_Counting /\ C1_LockedAttempt]_vars

\* what C2 requires for success
C2_MaySucceed(i) ==
    /\ i \in DOMAIN users
    /\ users[i].email_verified
    /\ PasswordOk(i)
    /\ (~users[i].is_locked \/ Elapsed(i) > LockHours)

\* C2: login_user returns the account only if the account exists, is verified,
\* the password verifies, and the account is unlocked or locked for more than
\* 24 hours; in every other case it returns failure.
C2_SuccessOnlyIf ==
    [][lastCall'.op = "login_user"
       => /\ lastCall'.result = "user" => C2_MaySucceed(lastCall'.id)
          /\ ~C2_MaySucceed(lastCall'.id) => lastCall'.result = None]_vars

\* C3: login_user on a verified account locked for more than 24 hours unlocks
\* it and runs the credential check in the same call: a correct password
\* returns the account with counter 0, a wrong one returns failure with
\* counter 1, both with is_locked false.
C3_AutoUnlock ==
    [][\A i \in DOMAIN users :
        (/\ LoginOn(i)
         /\ users[i].email_verified
         /\ users[i].is_locked
         /\ Elapsed(i) > LockHours)
        => /\ users'[i].is_locked = FALSE
           /\ IF PasswordOk(i)
              THEN /\ lastCall'.result = "user"
                   /\ users'[i].failed_login_attempts = 0
              ELSE /\ lastCall'.result = None
                   /\ users'[i].failed_login_attempts = 1]_vars

\* C4: login_user with the correct password on a verified, unlocked account
\* returns the account and commits that row with failed_login_attempts = 0 and
\* last_login_at = now, whatever the counter was, and nothing else changed.
C4_SuccessResetsCounter ==
    [][\A i \in DOMAIN users :
        (/\ LoginOn(i)
         /\ users[i].email_verified
         /\ ~users[i].is_locked
         /\ PasswordOk(i))
        => /\ lastCall'.result = "user"
           /\ users' = [users EXCEPT ![i].failed_login_attempts = 0,
                                     ![i].last_login_at = now]]_vars

\* C4 witness: a successful login that found a non-zero counter and reset it
C4_Witness ==
    /\ lastCall.op = "login_user"
    /\ lastCall.result = "user"
    /\ lastCall.attempts > 0
    /\ ~lastCall.locked
    /\ users[lastCall.id].failed_login_attempts = 0
    /\ users[lastCall.id].last_login_at = now

\* C5: every stored account with is_locked = true has
\* failed_login_attempts >= max_login_attempts.
C5_LockedImpliesMaxAttempts ==
    \A i \in DOMAIN users :
        users[i].is_locked
        => users[i].failed_login_attempts >= max_login_attempts

\* C5 witness: a wrong-password login has just locked an account
C5_Witness ==
    /\ lastCall.op = "login_user"
    /\ ~lastCall.locked
    /\ lastCall.id \in DOMAIN users
    /\ users[lastCall.id].is_locked

\* C6: every login_user call that finds an account commits that row with
\* last_login_at = now before it returns, in every branch; the call that finds
\* no account leaves the table unchanged.
C6_EveryBranchPersists ==
    [][lastCall'.op = "login_user"
       => IF lastCall'.id \in DOMAIN users
          THEN users'[lastCall'.id].last_login_at = now
          ELSE users' = users]_vars

\* C7: a successful create gives role ADMIN, email_verified = true, no
\* verification token and no verification email exactly when the table was
\* empty; every other successful create gives a non-ADMIN, unverified row with
\* a verification token and sends the verification email once.
C7_FirstAccountIsAdmin ==
    [][(lastCall'.op = "create" /\ lastCall'.result = "user")
       => LET i == lastCall'.id
          IN  /\ i \notin DOMAIN users
              /\ DOMAIN users' = DOMAIN users \cup {i}
              /\ IF DOMAIN users = {}
                 THEN /\ users'[i].role = "ADMIN"
                      /\ users'[i].email_verified = TRUE
                      /\ users'[i].verification_token = None
                      /\ lastCall'.sends = 0
                 ELSE /\ users'[i].role # "ADMIN"
                      /\ users'[i].email_verified = FALSE
                      /\ users'[i].verification_token # None
                      /\ lastCall'.sends = 1]_vars

\* C7 witness: a second account has just been created beside the ADMIN
C7_Witness ==
    /\ lastCall.op = "create"
    /\ lastCall.result = "user"
    /\ lastCall.sends = 1
    /\ users[lastCall.id].role = "ANONYMOUS"
    /\ \E j \in DOMAIN users : j \in granted /\ users[j].role = "ADMIN"

\* C8 as stated: over any interleaving of create and delete at most one
\* account is ever given ADMIN by create, and it is the first account ever
\* created.
C8_OnlyFirstEverIsAdmin == granted \subseteq {1}

\* no account has been deleted: every id handed out is still stored
NoneDeleted == DOMAIN users = 1..(nextId - 1)

\* C8 amended: when no two create calls have overlapped and no account has
\* been deleted, create has given ADMIN to the first account ever created and
\* to no other.
C8_OnlyFirstIsAdminSequential ==
    (~overlap /\ NoneDeleted)
    => /\ granted \subseteq {1}
       /\ nextId > 1 => granted = {1}

\* C8 witness: two accounts created one after the other, only the first ADMIN
C8_Witness ==
    /\ ~overlap
    /\ DOMAIN users = {1, 2}
    /\ granted = {1}
    /\ lastCall.op = "create"
    /\ lastCall.id = 2

\* some stored row has this email
Registered(store, email) == \E i \in DOMAIN store : store[i].email = email

C9_Unique ==
    \A i, j \in DOMAIN users :
        i # j => /\ users[i].email # users[j].email
                 /\ users[i].nickname # users[j].nickname

\* a create called with a registered email returns at its existence check
C9_Rejects ==
    \A p \in Tasks :
        (pc[p] = "idle" /\ pc'[p] # "idle") => ~Registered(users, loc'[p].email)

\* no step adds a row whose email was registered
C9_NoRecordAdded ==
    \A i \in DOMAIN users' \ DOMAIN users : ~Registered(users, users'[i].email)

C10_TokenWorksOnce ==
    [][lastCall'.op = "verify_email_with_token"
       => LET i == lastCall'.id
              t == lastCall'.token
          IN  /\ (/\ i \in DOMAIN users
                  /\ t # None
                  /\ users[i].verification_token = t)
                 => /\ lastCall'.result = "True"
                    /\ users' = [users EXCEPT ![i].email_verified = TRUE,
                                              ![i].verification_token = None,
                                              ![i].role = "AUTHENTICATED"]
              /\ (t # None /\ <<i, t>> \in used)
                 => /\ lastCall'.result = "False"
                    /\ users' = users]_vars

\* C10 witness: a second call with a token that had already succeeded
C10_Witness ==
    /\ lastCall.op = "verify_email_with_token"
    /\ lastCall.result = "False"
    /\ lastCall.token # None
    /\ <<lastCall.id, lastCall.token>> \in used
    /\ users[lastCall.id].email_verified
    /\ users[lastCall.id].role = "AUTHENTICATED"

\* C11: verify_email_with_token with an unknown id, or with a token that
\* differs from the stored verification_token, returns False and leaves every
\* field of every account unchanged.
C11_WrongTokenNoMutation ==
    [][lastCall'.op = "verify_email_with_token"
       => LET i == lastCall'.id
              t == lastCall'.token
          IN  (i \notin DOMAIN users \/ users[i].verification_token # t)
              => /\ lastCall'.result = "False"
                 /\ users' = users]_vars

\* C11 witness: a wrong token was refused on an account that awaits
\* verification, and the account still awaits it
C11_Witness ==
    /\ lastCall.op = "verify_email_with_token"
    /\ lastCall.result = "False"
    /\ lastCall.id \in DOMAIN users
    /\ lastCall.token # users[lastCall.id].verification_token
    /\ users[lastCall.id].verification_token \in Tokens
    /\ ~users[lastCall.id].email_verified
    /\ users[lastCall.id].role = "ANONYMOUS"

\* C12: reset_password on an existing account, whatever its lock and counter,
\* stores the hash of the new password, sets failed_login_attempts = 0 and
\* is_locked = false and returns True, so that login_user with the new
\* password on a verified account succeeds at once; on an unknown id it
\* returns False and changes nothing.
C12_ResetClearsLock ==
    [][lastCall'.op = "reset_password"
       => LET i == lastCall'.id
              new_password == lastCall'.password
          IN  IF i \in DOMAIN users
              THEN /\ lastCall'.result = "True"
                   /\ users' =
                        [users EXCEPT
                            ![i].hashed_password = hash_password(new_password),
                            ![i].failed_login_attempts = 0,
                            ![i].is_locked = FALSE]
                   /\ users'[i].email_verified
                        => login_user(users', users'[i].email, new_password,
                                      now).result = "user"
              ELSE /\ lastCall'.result = "False"
                   /\ users' = users]_vars

\* C12 witness: a locked, verified account has just been given a new password
C12_Witness ==
    /\ lastCall.op = "reset_password"
    /\ lastCall.result = "True"
    /\ lastCall.locked
    /\ lastCall.attempts >= max_login_attempts
    /\ users[lastCall.id].email_verified
    /\ ~users[lastCall.id].is_locked
    /\ users[lastCall.id].failed_login_attempts = 0
    /\ users[lastCall.id].hashed_password = hash_password(lastCall.password)

\* C13: unlock_user_account returns True exactly when the account exists and
\* is locked, and then commits is_locked = false and failed_login_attempts = 0;
\* on a missing or unlocked account it returns False and changes no field, a
\* non-zero counter of an unlocked account included.
C13_UnlockOnlyIfLocked ==
    [][lastCall'.op = "unlock_user_account"
       => LET i == lastCall'.id
          IN  IF i \in DOMAIN users /\ users[i].is_locked
              THEN /\ lastCall'.result = "True"
                   /\ users' = [users EXCEPT ![i].is_locked = FALSE,
                                             ![i].failed_login_attempts = 0]
              ELSE /\ lastCall'.result = "False"
                   /\ users' = users]_vars

\* C13 witness: a locked account has just been unlocked
C13_Witness ==
    /\ lastCall.op = "unlock_user_account"
    /\ lastCall.result = "True"
    /\ lastCall.locked
    /\ ~users[lastCall.id].is_locked
    /\ users[lastCall.id].failed_login_attempts = 0

\* the no-op case of C13: an unlocked account keeps its non-zero counter
C13_NoOpReached ==
    /\ lastCall.op = "unlock_user_account"
    /\ lastCall.result = "False"
    /\ lastCall.id \in DOMAIN users
    /\ ~users[lastCall.id].is_locked
    /\ users[lastCall.id].failed_login_attempts > 0

\* C14: a create that reaches the Notifier (a non-first account) returns the
\* account and stores it, whether send_verification_email fails or not.
C14_NotifierFailureKeepsAccount ==
    [][(lastCall'.op = "create" /\ lastCall'.sends = 1)
       => /\ lastCall'.result = "user"
          /\ lastCall'.id \in DOMAIN users' \ DOMAIN users]_vars

\* what a call leaves to its caller when it ends by raising
Raised == {"NameError", "IntegrityError", "Exception"}

\* C15: every call of a public operation ends by returning a success or a
\* failure value; none ends by raising an error to its caller.
C15_NoOperationRaises == lastCall.result \notin Raised

\* C16: update_professional_status on an existing account commits
\* is_professional = the supplied value and professional_status_updated_at =
\* now on every call, also when the value does not change, changes nothing
\* else and returns the account; on an unknown id it returns None and changes
\* nothing.
C16_StampAlwaysRefreshed ==
    [][lastCall'.op = "update_professional_status"
       => LET i == lastCall'.id
          IN  IF i \in DOMAIN users
              THEN /\ lastCall'.result = "user"
                   /\ users' =
                        [users EXCEPT
                            ![i].is_professional = lastCall'.data,
                            ![i].professional_status_updated_at = now]
              ELSE /\ lastCall'.result = None
                   /\ users' = users]_vars

\* C16 witness: the status was set again to the value it had, at a later
\* time, and the stamp is the time of that call
C16_Witness ==
    /\ lastCall.op = "update_professional_status"
    /\ lastCall.result = "user"
    /\ lastCall.data = TRUE
    /\ lastCall.was = TRUE
    /\ lastCall.stamp # NoTime
    /\ lastCall.stamp < now
    /\ users[lastCall.id].is_professional
    /\ users[lastCall.id].professional_status_updated_at = now

\* the columns an accepted update_data names
Supplied(update_data) ==
    {IF field = "password" THEN "hashed_password" ELSE field :
        field \in DOMAIN update_data}

\* C17: update is all-or-nothing: when the validator rejects update_data
\* (an invalid URL, alone or beside valid fields) update returns None and the
\* table is unchanged; when it accepts, the supplied fields take the supplied
\* values (the password as its hash) and every other field of every account
\* keeps its value.
C17_AllOrNothing ==
    [][lastCall'.op = "update"
       => LET i == lastCall'.id
              d == lastCall'.data
          IN  IF i \notin DOMAIN users \/ ~UserUpdate(d)
              THEN /\ lastCall'.result = None
                   /\ users' = users
              ELSE /\ lastCall'.result = "user"
                   /\ DOMAIN users' = DOMAIN users
                   /\ \A j \in DOMAIN users \ {i} : users'[j] = users[j]
                   /\ \A column \in DOMAIN users[i] \ Supplied(d) :
                        users'[i][column] = users[i][column]
                   /\ \A field \in DOMAIN d \ {"password"} :
                        users'[i][field] = d[field]
                   /\ "password" \in DOMAIN d
                        => users'[i].hashed_password
                            = hash_password(d["password"])]_vars

\* C17 witness: an update that named a valid bio beside an invalid URL was
\* refused, and the account has neither
C17_Witness ==
    /\ lastCall.op = "update"
    /\ lastCall.result = None
    /\ lastCall.id \in DOMAIN users
    /\ DOMAIN lastCall.data = {"bio", "linkedin_profile_url"}
    /\ lastCall.data["linkedin_profile_url"] = "invalid-url"
    /\ users[lastCall.id].bio = None
    /\ users[lastCall.id].linkedin_profile_url = None

\* task p commits a wrong-password login in this step
WrongCommit(p) ==
    /\ pc[p] = "login_commit"
    /\ pc'[p] = "idle"
    /\ login[p].result = None

\* C18: login_user is not atomic: the commit of a wrong-password call stores
\* the counter it read plus one whatever the stored counter has become, so
\* when two such calls read the same value before either commits the stored
\* counter ends at that value plus one and one increment is lost.
C18_LastWriteWins ==
    [][\A p, q \in Tasks :
        LET i == login[p].user.id
        IN  /\ WrongCommit(p)
               => users'[i].failed_login_attempts
                    = login[p].user.failed_login_attempts + 1
            /\ (/\ WrongCommit(p)
                /\ p # q
                /\ pc[q] = "idle"
                /\ lastCall.op = "login_user"
                /\ lastCall.id = i
                /\ lastCall.result = None
                /\ lastCall.attempts = login[p].user.failed_login_attempts
                /\ ~lastCall.locked)
               => users'[i].failed_login_attempts
                    = users[i].failed_login_attempts]_vars

\* C18 witness: max_login_attempts wrong-password logins in a row have
\* completed on an account, an increment was lost, and the account is still
\* unlocked: locking it takes more than max_login_attempts attempts
C18_Witness ==
    \E i \in DOMAIN users :
        /\ wrongs[i] >= max_login_attempts
        /\ users[i].failed_login_attempts < max_login_attempts
        /\ ~users[i].is_locked
        /\ lastCall.op = "login_user"
        /\ lastCall.id = i
        /\ lastCall.result = None
        /\ \A p \in Tasks : pc[p] = "idle"

\* C19: verify_email_with_token on an account whose email_verified is true
\* returns False for every supplied token, an absent one included, and leaves
\* the role as it was.
C19_VerifiedNeverReverified ==
    [][lastCall'.op = "verify_email_with_token"
       => LET i == lastCall'.id
          IN  (i \in DOMAIN users /\ users[i].email_verified)
              => /\ lastCall'.result = "False"
                 /\ users'[i].role = users[i].role]_vars

\* C20: a login_user call on a locked account inside the 24-hour window
\* sets last_login_at to the time of the call, so the window starts again,
\* and leaves the account locked.
C20_WindowRestarts ==
    [][\A i \in DOMAIN users :
        (/\ LoginOn(i)
         /\ users[i].email_verified
         /\ users[i].is_locked
         /\ Elapsed(i) <= LockHours)
        => /\ users'[i].last_login_at = now
           /\ users'[i].is_locked]_vars

\* C21 as stated: in every reachable state, under any interleaving of
\* login_user, reset_password and unlock_user_account calls, every account
\* has 0 <= failed_login_attempts <= max_login_attempts.
C21_CounterBounded ==
    \A i \in DOMAIN users :
        /\ users[i].failed_login_attempts >= 0
        /\ users[i].failed_login_attempts <= max_login_attempts

\* C21 amended: as long as no reset_password or unlock_user_account call has
\* been in flight together with a login_user call, every account has
\* 0 <= failed_login_attempts <= max_login_attempts, also when login_user
\* calls interleave with each other.
C21_CounterBoundedNoAdminRace == ~raced => C21_CounterBounded

\* C21 witness: login_user calls have interleaved on an account (an
\* increment was lost), no reset or unlock raced with them, and the counter
\* stands at the maximum with the account locked
C21_Witness ==
    \E i \in DOMAIN users :
        /\ ~raced
        /\ wrongs[i] > max_login_attempts
        /\ users[i].failed_login_attempts = max_login_attempts
        /\ users[i].is_locked
        /\ lastCall.op = "login_user"
        /\ lastCall.id = i

====
